---- MODULE Spec2Model ----
(***************************************************************************)
(* A model of hello-app (src/main.py): a FastAPI application created with  *)
(* default arguments, on which one route, GET "/", is registered.  The     *)
(* route's handler, root, returns the mapping                              *)
(*      {"message": "Hello CI/CD World!"}.                                 *)
(*                                                                         *)
(* The file main.py is seven lines long; everything else a request meets   *)
(* is what the two framework calls of main.py, FastAPI() on line 3 and     *)
(* @app.get("/") on line 5, set up: the route table (the application's     *)
(* route plus the documentation routes FastAPI() adds by default), the     *)
(* router's dispatch (full match, method mismatch, trailing-slash          *)
(* redirect, not found), the JSON rendering of the handler's return value  *)
(* and the lazily cached OpenAPI schema.  These are modelled as the        *)
(* framework performs them.                                                *)
(*                                                                         *)
(* Texts (paths, bodies, header values) are sequences of one-character     *)
(* strings, so that rendering and decoding work on characters.             *)
(***************************************************************************)
EXTENDS Integers, Sequences, FiniteSets, Bags, TLC

VARIABLES
    routes,          \* app.router.routes: the ordered route table
    openapi_schema,  \* app.openapi_schema: None until first generated
    inflight,        \* bag of requests accepted and not yet answered
    log              \* the responses sent so far to GET "/", in order

vars == <<routes, openapi_schema, inflight, log>>

(***************************************************************************)
(* Bounds of the model.                                                    *)
(***************************************************************************)
MaxInFlight == 2      \* requests handled concurrently
MaxRootRequests == 2  \* GET "/" requests accepted in one run

(***************************************************************************)
(* Texts.                                                                  *)
(***************************************************************************)
None == "None"

SLASH == <<"/">>
MESSAGE == <<"m", "e", "s", "s", "a", "g", "e">>
HELLO == <<"H", "e", "l", "l", "o", " ", "C", "I", "/", "C", "D", " ",
           "W", "o", "r", "l", "d", "!">>
DETAIL == <<"d", "e", "t", "a", "i", "l">>
NOT_FOUND == <<"N", "o", "t", " ", "F", "o", "u", "n", "d">>
METHOD_NOT_ALLOWED == <<"M", "e", "t", "h", "o", "d", " ", "N", "o", "t", " ",
                        "A", "l", "l", "o", "w", "e", "d">>

ROOT_PATH == SLASH
OPENAPI_URL == <<"/", "o", "p", "e", "n", "a", "p", "i", ".", "j", "s", "o", "n">>
DOCS_URL == <<"/", "d", "o", "c", "s">>
OAUTH2_REDIRECT_URL == DOCS_URL \o <<"/", "o", "a", "u", "t", "h", "2", "-",
                                     "r", "e", "d", "i", "r", "e", "c", "t">>
REDOC_URL == <<"/", "r", "e", "d", "o", "c">>
MISSING_PATH == <<"/", "m", "i", "s", "s", "i", "n", "g">>

APPLICATION_JSON == "application/json"
TEXT_HTML == "text/html; charset=utf-8"

(***************************************************************************)
(* Status codes the application and the framework answer with.             *)
(***************************************************************************)
HTTP_200_OK == 200
HTTP_307_TEMPORARY_REDIRECT == 307
HTTP_404_NOT_FOUND == 404
HTTP_405_METHOD_NOT_ALLOWED == 405

(***************************************************************************)
(* The handler: async def root() takes no parameter and returns a new dict *)
(* with the single key "message".  A dict is modelled as the sequence of   *)
(* its <<key, value>> items in insertion order.                            *)
(***************************************************************************)
\* Faulty variant: another greeting.
root_hello_world ==
    << <<MESSAGE, <<"H", "e", "l", "l", "o", " ", "W", "o", "r", "l", "d", "!">> >> >>

root == << <<MESSAGE, HELLO>> >>

(***************************************************************************)
(* JSON rendering of the handler's return value.  @app.get("/") leaves the *)
(* route's response class at the framework default, JSONResponse, whose    *)
(* render is                                                               *)
(*   json.dumps(content, ensure_ascii=False, allow_nan=False, indent=None, *)
(*              separators=(",", ":")).encode("utf-8").                    *)
(* A string is written between double quotes with '"' and '\' escaped; the *)
(* items of a dict are joined by the item separator, key and value by the  *)
(* key separator.                                                          *)
(***************************************************************************)
RECURSIVE encode_basestring_chars(_)
encode_basestring_chars(s) ==
    IF s = <<>> THEN <<>>
    ELSE (IF Head(s) \in {"\"", "\\"} THEN <<"\\", Head(s)>> ELSE <<Head(s)>>)
         \o encode_basestring_chars(Tail(s))

encode_basestring(s) == <<"\"">> \o encode_basestring_chars(s) \o <<"\"">>

RECURSIVE encode_items(_, _, _)
encode_items(items, item_separator, key_separator) ==
    IF items = <<>> THEN <<>>
    ELSE encode_basestring(Head(items)[1]) \o key_separator
         \o encode_basestring(Head(items)[2])
         \o (IF Tail(items) = <<>> THEN <<>> ELSE item_separator)
         \o encode_items(Tail(items), item_separator, key_separator)

json_dumps(content, item_separator, key_separator) ==
    <<"{">> \o encode_items(content, item_separator, key_separator) \o <<"}">>

\* Faulty variant: json.dumps with its own default separators, ", " and ": ".
render_default_separators(content) == json_dumps(content, <<",", " ">>, <<":", " ">>)

render(content) == json_dumps(content, <<",">>, <<":">>)

(***************************************************************************)
(* Responses.  A response is its status, the Content-Type and Location     *)
(* headers ("" when absent; other headers are not modelled) and its body.  *)
(* The bodies of the documentation pages and of the OpenAPI document are   *)
(* kept as one opaque token each: no claim reads inside them.              *)
(***************************************************************************)
Response(status, content_type, location, body) ==
    [status |-> status, content_type |-> content_type,
     location |-> location, body |-> body]

\* Faulty variant: the rendered text sent with a plain-text media type.
JSONResponse_text_plain(content, status) ==
    Response(status, "text/plain; charset=utf-8", <<>>, render(content))

JSONResponse(content, status) ==
    Response(status, APPLICATION_JSON, <<>>, render(content))

HTMLResponse(page) == Response(HTTP_200_OK, TEXT_HTML, <<>>, <<page>>)

RedirectResponse(url) == Response(HTTP_307_TEMPORARY_REDIRECT, "", url, <<>>)

\* FastAPI's handler for HTTPException: {"detail": <phrase>} with the status.
http_exception_handler(status, detail) ==
    JSONResponse(<< <<DETAIL, detail>> >>, status)

(***************************************************************************)
(* The route table.  FastAPI() with default arguments keeps                *)
(* openapi_url="/openapi.json", docs_url="/docs", redoc_url="/redoc" and   *)
(* swagger_ui_oauth2_redirect_url="/docs/oauth2-redirect", and its setup() *)
(* adds one plain route for each; a plain route of a function endpoint     *)
(* takes the methods GET and HEAD.  @app.get("/") then appends the         *)
(* application's route, an APIRoute with methods exactly {GET}.            *)
(***************************************************************************)
Route(path, methods, endpoint) ==
    [path |-> path, methods |-> methods, endpoint |-> endpoint]

FastAPI ==
    << Route(OPENAPI_URL, {"GET", "HEAD"}, "openapi"),
       Route(DOCS_URL, {"GET", "HEAD"}, "swagger_ui_html"),
       Route(OAUTH2_REDIRECT_URL, {"GET", "HEAD"}, "swagger_ui_redirect"),
       Route(REDOC_URL, {"GET", "HEAD"}, "redoc_html") >>

\* Faulty variant: the route registered for POST as well as GET.
app_get_and_post(app_routes, path, endpoint) ==
    Append(app_routes, Route(path, {"GET", "POST"}, endpoint))

app_get(app_routes, path, endpoint) ==
    Append(app_routes, Route(path, {"GET"}, endpoint))

app == app_get(FastAPI, ROOT_PATH, "root")

(***************************************************************************)
(* Route matching (Route.matches): no match when the path differs, a       *)
(* partial match when the path is the route's and the method is not among  *)
(* its methods, a full match otherwise.  None of the paths has parameters, *)
(* so a path matches a route when it equals the route's path.              *)
(***************************************************************************)
\* Faulty variant: the route's methods are not looked at.
matches_any_method(route, method, path) ==
    IF path # route.path THEN "NONE" ELSE "FULL"

\* Faulty variant: a route matches every path its own path is a prefix of.
matches_prefix(route, method, path) ==
    IF \/ Len(path) < Len(route.path)
       \/ SubSeq(path, 1, Len(route.path)) # route.path THEN "NONE"
    ELSE IF method \notin route.methods THEN "PARTIAL"
    ELSE "FULL"

matches(route, method, path) ==
    IF path # route.path THEN "NONE"
    ELSE IF method \notin route.methods THEN "PARTIAL"
    ELSE "FULL"

\* The first route of the table with the given match, 0 when there is none.
FirstMatch(rts, method, path, kind) ==
    LET hits == {i \in 1..Len(rts) : matches(rts[i], method, path) = kind}
    IN  IF hits = {} THEN 0 ELSE CHOOSE i \in hits : \A j \in hits : i <= j

\* str.rstrip("/")
RECURSIVE rstrip_slash(_)
rstrip_slash(path) ==
    IF path # <<>> /\ path[Len(path)] = "/"
    THEN rstrip_slash(SubSeq(path, 1, Len(path) - 1))
    ELSE path

\* The path the router retries with when nothing matched (redirect_slashes).
redirect_path(path) ==
    IF path[Len(path)] = "/" THEN rstrip_slash(path) ELSE path \o SLASH

\* The redirect target: the retried path with the request's query string
\* (scheme and authority of the URL are left out).
redirect_url(path, query) ==
    redirect_path(path) \o (IF query = <<>> THEN <<>> ELSE <<"?">> \o query)

(***************************************************************************)
(* FastAPI.openapi(): the schema is generated on the first call and kept   *)
(* in app.openapi_schema; later calls return the kept one.                 *)
(***************************************************************************)
GENERATED_SCHEMA == "openapi-schema"

openapi(schema) == IF schema = None THEN GENERATED_SCHEMA ELSE schema

(***************************************************************************)
(* Calling an endpoint: the response it produces and the value of          *)
(* app.openapi_schema afterwards.  For root, the returned dict is made the *)
(* content of a JSONResponse with the route's default status, 200.  The    *)
(* framework has the request at hand (req); root declares no parameter, so *)
(* nothing of it is passed on.                                             *)
(***************************************************************************)
Outcome(called, response, schema) ==
    [called |-> called, response |-> response, schema |-> schema]

\* Faulty variant: root reads the request and echoes its query string.
call_endpoint_echo_query(endpoint, req, schema) ==
    CASE endpoint = "root" ->
           Outcome("root",
                   JSONResponse(<< <<MESSAGE, HELLO \o req.query>> >>, HTTP_200_OK),
                   schema)
      [] endpoint = "openapi" ->
           Outcome("openapi",
                   Response(HTTP_200_OK, APPLICATION_JSON, <<>>, <<openapi(schema)>>),
                   openapi(schema))
      [] OTHER ->
           Outcome(endpoint, HTMLResponse(endpoint), schema)

\* Faulty variant: root reads state shared between requests (here the schema
\* cache) and answers differently once it is filled.
call_endpoint_shared_state(endpoint, req, schema) ==
    CASE endpoint = "root" ->
           Outcome("root",
                   JSONResponse(IF schema = None THEN root
                                ELSE << <<MESSAGE, HELLO>>, <<DETAIL, HELLO>> >>,
                                HTTP_200_OK),
                   schema)
      [] endpoint = "openapi" ->
           Outcome("openapi",
                   Response(HTTP_200_OK, APPLICATION_JSON, <<>>, <<openapi(schema)>>),
                   openapi(schema))
      [] OTHER ->
           Outcome(endpoint, HTMLResponse(endpoint), schema)

call_endpoint(endpoint, req, schema) ==
    CASE endpoint = "root" ->
           Outcome("root", JSONResponse(root, HTTP_200_OK), schema)
      [] endpoint = "openapi" ->
           Outcome("openapi",
                   Response(HTTP_200_OK, APPLICATION_JSON, <<>>, <<openapi(schema)>>),
                   openapi(schema))
      [] OTHER ->
           Outcome(endpoint, HTMLResponse(endpoint), schema)

(***************************************************************************)
(* The router's dispatch (Router.app).  The first fully matching route     *)
(* handles the request; failing that, the first partially matching route   *)
(* does, which answers 405 without calling its endpoint; failing that, and *)
(* unless the path is "/", the router retries with the trailing slash      *)
(* toggled and redirects when any route matches the retried path, fully or *)
(* partially; otherwise the answer is 404.                                 *)
(***************************************************************************)
router_app(rts, req, schema) ==
    LET full == FirstMatch(rts, req.method, req.path, "FULL")
        partial == FirstMatch(rts, req.method, req.path, "PARTIAL")
        retry == redirect_path(req.path)
    IN  IF full # 0 THEN call_endpoint(rts[full].endpoint, req, schema)
        ELSE IF partial # 0
        THEN Outcome(None,
                     http_exception_handler(HTTP_405_METHOD_NOT_ALLOWED,
                                            METHOD_NOT_ALLOWED),
                     schema)
        ELSE IF req.path # SLASH
                /\ \E i \in 1..Len(rts) : matches(rts[i], req.method, retry) # "NONE"
        THEN Outcome(None, RedirectResponse(redirect_url(req.path, req.query)), schema)
        ELSE Outcome(None,
                     http_exception_handler(HTTP_404_NOT_FOUND, NOT_FOUND),
                     schema)

(***************************************************************************)
(* Requests.  A request is its method, path, query string, headers and     *)
(* body.  The inputs take every method on every path; on the GET requests  *)
(* they also move one of query string, headers and body away from empty.   *)
(***************************************************************************)
Methods == {"GET", "POST", "HEAD"}

Paths == {ROOT_PATH, MISSING_PATH, DOCS_URL, DOCS_URL \o SLASH, OPENAPI_URL}

QUERY == <<"q", "=", "1">>
HEADERS == "Accept: text/html"
BODY == "payload"

Request(method, path, query, headers, body) ==
    [method |-> method, path |-> path, query |-> query,
     headers |-> headers, body |-> body]

Requests ==
    {Request(m, p, <<>>, "", "") : m \in Methods, p \in Paths}
    \cup {Request("GET", p, QUERY, "", "") : p \in Paths}
    \cup {Request("GET", p, <<>>, HEADERS, "") : p \in Paths}
    \cup {Request("GET", p, <<>>, "", BODY) : p \in Paths}

IsRoot(req) == req.method = "GET" /\ req.path = ROOT_PATH

(***************************************************************************)
(* A request in flight: accepted ("received"), then handled by the         *)
(* application, its response awaiting transmission ("responding").         *)
(***************************************************************************)
\* The response of a request not handled yet.
NoResponse == Response(0, "", <<>>, <<>>)

Task(req, pc, called, response) ==
    [req |-> req, pc |-> pc, called |-> called, response |-> response]

Tasks == BagToSet(inflight)

One(t) == SetToBag({t})

\* GET "/" requests accepted so far: answered or in flight.
RootAccepted ==
    LET rootTasks == {t \in Tasks : IsRoot(t.req)}
    IN  Len(log) + BagCardinality([t \in rootTasks |-> inflight[t]])

Init ==
    /\ routes = app
    /\ openapi_schema = None
    /\ inflight = EmptyBag
    /\ log = <<>>

\* The server accepts a request and schedules the application on it.
Receive(req) ==
    /\ BagCardinality(inflight) < MaxInFlight
    /\ IsRoot(req) => RootAccepted < MaxRootRequests
    /\ inflight' = inflight (+) One(Task(req, "received", None, NoResponse))
    /\ UNCHANGED <<routes, openapi_schema, log>>

\* Faulty variant: handling a request registers its route again.
Handle_registering(t) ==
    /\ t \in Tasks
    /\ t.pc = "received"
    /\ LET outcome == router_app(routes, t.req, openapi_schema)
       IN  /\ inflight' = (inflight (-) One(t))
                          (+) One(Task(t.req, "responding", outcome.called,
                                       outcome.response))
           /\ openapi_schema' = outcome.schema
           /\ routes' = IF outcome.called = "root"
                        THEN app_get(routes, t.req.path, "root") ELSE routes
    /\ UNCHANGED log

\* The application handles a request: dispatch, endpoint call and rendering
\* run without suspension, up to the response being ready to send.
Handle(t) ==
    /\ t \in Tasks
    /\ t.pc = "received"
    /\ LET outcome == router_app(routes, t.req, openapi_schema)
       IN  /\ inflight' = (inflight (-) One(t))
                          (+) One(Task(t.req, "responding", outcome.called,
                                       outcome.response))
           /\ openapi_schema' = outcome.schema
    /\ UNCHANGED <<routes, log>>

\* The response is sent and the request is over.
Send(t) ==
    /\ t \in Tasks
    /\ t.pc = "responding"
    /\ inflight' = inflight (-) One(t)
    /\ log' = IF IsRoot(t.req) THEN Append(log, t.response) ELSE log
    /\ UNCHANGED <<routes, openapi_schema>>

Next ==
    \/ \E req \in Requests : Receive(req)
    \/ \E t \in Tasks : Handle(t)
    \/ \E t \in Tasks : Send(t)

Spec == Init /\ [][Next]_vars

(***************************************************************************)
(* What a client observes: the responses ready to be sent, and those sent. *)
(***************************************************************************)
Responding == {t \in Tasks : t.pc = "responding"}

RootResponding == {t \in Responding : IsRoot(t.req)}

RootAnswers == {t.response : t \in RootResponding} \cup {log[i] : i \in 1..Len(log)}

(***************************************************************************)
(* A JSON decoder for objects whose keys and values are strings, as a      *)
(* client would apply to a body: whitespace between tokens is skipped,     *)
(* escapes inside strings are undone.  The result is [ok, items], items    *)
(* being the <<key, value>> pairs in order.                                *)
(***************************************************************************)
WHITESPACE == {" ", "\t", "\n", "\r"}

At(s, i) == IF i \in 1..Len(s) THEN s[i] ELSE ""

Invalid == [ok |-> FALSE, items |-> <<>>]

RECURSIVE skip_ws(_, _)
skip_ws(s, i) == IF At(s, i) \in WHITESPACE THEN skip_ws(s, i + 1) ELSE i

\* Scans a string whose opening quote is just before position i.
RECURSIVE scan_string(_, _, _)
scan_string(s, i, acc) ==
    IF i > Len(s) THEN [ok |-> FALSE, value |-> <<>>, next |-> i]
    ELSE IF s[i] = "\"" THEN [ok |-> TRUE, value |-> acc, next |-> i + 1]
    ELSE IF s[i] = "\\"
    THEN IF At(s, i + 1) \in {"\"", "\\", "/"}
         THEN scan_string(s, i + 2, Append(acc, s[i + 1]))
         ELSE [ok |-> FALSE, value |-> <<>>, next |-> i]
    ELSE scan_string(s, i + 1, Append(acc, s[i]))

\* Scans the members of an object from position i, where a key must start.
RECURSIVE scan_members(_, _, _)
scan_members(s, i, acc) ==
    IF At(s, i) # "\"" THEN Invalid
    ELSE LET k == scan_string(s, i + 1, <<>>)
             colon == skip_ws(s, k.next)
             quote == skip_ws(s, colon + 1)
             v == scan_string(s, quote + 1, <<>>)
             after == skip_ws(s, v.next)
             items == Append(acc, <<k.value, v.value>>)
         IN  IF ~k.ok \/ At(s, colon) # ":" \/ At(s, quote) # "\"" THEN Invalid
             ELSE IF ~v.ok THEN Invalid
             ELSE IF At(s, after) = ","
             THEN scan_members(s, skip_ws(s, after + 1), items)
             ELSE IF At(s, after) = "}" /\ skip_ws(s, after + 1) = Len(s) + 1
             THEN [ok |-> TRUE, items |-> items]
             ELSE Invalid

json_loads(s) ==
    LET open == skip_ws(s, 1)
        first == skip_ws(s, open + 1)
    IN  IF At(s, open) # "{" THEN Invalid
        ELSE IF At(s, first) = "}"
        THEN (IF skip_ws(s, first + 1) = Len(s) + 1
              THEN [ok |-> TRUE, items |-> <<>>] ELSE Invalid)
        ELSE scan_members(s, first, <<>>)

Quoted(s) == <<"\"">> \o s \o <<"\"">>

\* {"message": "Hello CI/CD World!"}, a space after the colon
TEXT_WITH_SPACE == <<"{">> \o Quoted(MESSAGE) \o <<":", " ">> \o Quoted(HELLO) \o <<"}">>

\* {"message":"Hello CI/CD World!"}, no space
TEXT_COMPACT == <<"{">> \o Quoted(MESSAGE) \o <<":">> \o Quoted(HELLO) \o <<"}">>

(***************************************************************************)
(* C1.  Every GET request to "/" is answered with status 200 and a body    *)
(* that is the JSON object with the single key "message" whose value is    *)
(* "Hello CI/CD World!".                                                   *)
(***************************************************************************)
C1_RootAnswer ==
    \A r \in RootAnswers :
        /\ r.status = 200
        /\ json_loads(r.body) = [ok |-> TRUE, items |-> << <<MESSAGE, HELLO>> >>]

C1_Witness == Len(log) >= 1 /\ RootResponding # {}

(***************************************************************************)
(* C2.  As claimed: the body of the answer to GET "/" is byte for byte     *)
(* {"message": "Hello CI/CD World!"}, with a space after the colon.        *)
(***************************************************************************)
C2_BodyWithSpace == \A r \in RootAnswers : r.body = TEXT_WITH_SPACE

(***************************************************************************)
(* C2, amended.  The body of the answer to GET "/" is byte for byte        *)
(* {"message":"Hello CI/CD World!"}: the framework renders JSON with the   *)
(* separators "," and ":", without spaces.                                 *)
(***************************************************************************)
C2_BodyCompact == \A r \in RootAnswers : r.body = TEXT_COMPACT

C2_Witness ==
    \E t \in RootResponding : Len(t.response.body) = Len(TEXT_WITH_SPACE) - 1

(***************************************************************************)
(* C3.  As claimed: every request other than GET "/" is answered with 404  *)
(* or 405; no other path or method yields a successful response.           *)
(***************************************************************************)
C3_OnlyRootSucceeds ==
    \A t \in Responding : ~IsRoot(t.req) => t.response.status \in {404, 405}

(***************************************************************************)
(* C3, amended.  Every request other than GET "/" is answered with 404 or  *)
(* 405, except on the documentation routes FastAPI() registers by default  *)
(* (/openapi.json, /docs, /docs/oauth2-redirect, /redoc): GET and HEAD on  *)
(* one of them are answered with 200, and any method on one of them        *)
(* followed by trailing slashes is answered with a 307 redirect.           *)
(***************************************************************************)
DocumentationPaths == {OPENAPI_URL, DOCS_URL, OAUTH2_REDIRECT_URL, REDOC_URL}

C3_OnlyRootAndDocsSucceed ==
    \A t \in Responding :
        ~IsRoot(t.req) =>
            IF t.req.path \in DocumentationPaths /\ t.req.method \in {"GET", "HEAD"}
            THEN t.response.status = 200
            ELSE IF /\ rstrip_slash(t.req.path) \in DocumentationPaths
                    /\ rstrip_slash(t.req.path) # t.req.path
            THEN t.response.status = 307
            ELSE t.response.status \in {404, 405}

C3_Witness ==
    \E t1, t2 \in Responding :
        /\ t1.req.path = DOCS_URL /\ t1.response.status = 200
        /\ ~IsRoot(t2.req) /\ t2.response.status \in {404, 405}

(***************************************************************************)
(* C4.  A POST request to "/" is answered with 405 and the root handler is *)
(* not invoked for it.                                                     *)
(***************************************************************************)
C4_PostRoot ==
    \A t \in Responding :
        t.req.method = "POST" /\ t.req.path = ROOT_PATH
            => t.response.status = 405 /\ t.called # "root"

C4_Witness ==
    \E t \in Responding : t.req.method = "POST" /\ t.req.path = ROOT_PATH

(***************************************************************************)
(* C5.  A request to a path that has no registered route is answered with  *)
(* a status outside 200..299, whatever the method.                         *)
(***************************************************************************)
RegisteredPaths == {routes[i].path : i \in 1..Len(routes)}

C5_UnregisteredPath ==
    \A t \in Responding :
        t.req.path \notin RegisteredPaths => t.response.status \notin 200..299

C5_Witness ==
    \E t1, t2 \in Responding :
        /\ t1.req.path = MISSING_PATH /\ t1.req.method = "GET"
        /\ t2.req.path = MISSING_PATH /\ t2.req.method = "POST"

(***************************************************************************)
(* C6.  Idempotence: the N responses sent to N GET "/" requests are        *)
(* identical in status and body, whatever was handled before or between.   *)
(***************************************************************************)
C6_Idempotent ==
    \A i, j \in 1..Len(log) :
        log[i].status = log[j].status /\ log[i].body = log[j].body

C6_Witness == Len(log) >= 2 /\ openapi_schema # None

(***************************************************************************)
(* C7.  Every response to GET "/" carries the Content-Type                 *)
(* application/json.                                                       *)
(***************************************************************************)
C7_ContentType == \A r \in RootAnswers : r.content_type = "application/json"

C7_Witness == \E t \in RootResponding : t.response.content_type # ""

(***************************************************************************)
(* C8.  The root handler ignores the request: GET "/" requests that differ *)
(* in headers, query string or body receive the same status and body.      *)
(***************************************************************************)
C8_IgnoresRequest ==
    \A t1, t2 \in RootResponding :
        /\ t1.response.status = t2.response.status
        /\ t1.response.body = t2.response.body

C8_Witness ==
    \E t1, t2 \in RootResponding :
        /\ t1.req.query # t2.req.query
        /\ t1.req.headers # t2.req.headers \/ t1.req.body # t2.req.body

(***************************************************************************)
(* C9.  Under every interleaving of concurrently handled requests, each    *)
(* GET "/" receives 200 with the fixed payload, and every request receives *)
(* what it would receive alone on a freshly started application.           *)
(***************************************************************************)
C9_Interleaving ==
    \A t \in Responding :
        /\ t.response = router_app(app, t.req, None).response
        /\ t.called = router_app(app, t.req, None).called
        /\ IsRoot(t.req) =>
               /\ t.response.status = 200
               /\ json_loads(t.response.body).items = << <<MESSAGE, HELLO>> >>

C9_Witness ==
    \E t1 \in RootResponding : \E t2 \in Tasks :
        /\ ~IsRoot(t2.req)
        /\ openapi_schema # None

(***************************************************************************)
(* C10.  As claimed: handling a request changes no application state.      *)
(***************************************************************************)
C10_NoStateChange ==
    [][routes' = routes /\ openapi_schema' = openapi_schema]_vars

(***************************************************************************)
(* C10, amended.  Handling a request never changes the route table, which  *)
(* stays the one registered at startup, and never stores the payload: the  *)
(* root handler builds it anew and writes no state.  Application state     *)
(* does change when the framework's default /openapi.json route serves its *)
(* first request: the generated schema is kept in app.openapi_schema.      *)
(***************************************************************************)
C10_OnlySchemaCache ==
    [][/\ routes' = routes
       /\ routes = app
       /\ openapi_schema' # openapi_schema =>
              /\ openapi_schema = None
              /\ openapi_schema' = GENERATED_SCHEMA
              /\ \E t \in BagToSet(inflight') :
                     t.pc = "responding" /\ t.called = "openapi"]_vars

C10_Witness == Len(log) >= 1 /\ openapi_schema # None /\ routes = app

====
